---- MODULE Spec2Model ----
(***************************************************************************)
(* Model of pycistarget's motif_enrichment_cistarget.py: the               *)
(* cisTargetDatabase loader (load_db) and the cisTarget analysis           *)
(* (run_ctx).                                                              *)
(*                                                                         *)
(* Numbers.  AUCs, recovery curves and NES values are kept as exact        *)
(* integers over a common denominator; comparisons that involve a          *)
(* standard deviation are decided exactly by squaring (Sgn2, Sgn3).        *)
(* x / 0 with x = 0 is numpy's NaN: every comparison with it is FALSE.     *)
(*                                                                         *)
(* Strings.  A region key is a sequence of tokens, "__" being the          *)
(* namespace separator, so that split('__') and prefix + '__' + x are      *)
(* sequence operations.                                                    *)
(***************************************************************************)
EXTENDS Integers, Sequences, FiniteSets, TLC

VARIABLES
    feather,      \* the ranking database file: genes (ordered keys) and ranks
    region_sets,  \* the region_sets argument given to cisTargetDatabase(...)
    ctx_db,       \* the cisTargetDatabase object
    load,         \* where load_db ended, what it raised, what it asked of the file
    self,         \* the cisTarget object: parameters and results
    run           \* where the last run_ctx ended, what it called and computed

vars == <<feather, region_sets, ctx_db, load, self, run>>

----------------------------------------------------------------------------
(* Bounds of the model *)

\* number of regions in the ranking database (db.total_genes)
NumDbRegions == 4
AllAtoms == <<"r0", "r1", "r2", "r3", "r4", "r5">>
\* the query regions of the region sets, in coordinate order
AllTargets == <<"t1", "t2">>

\* region names without namespace, as token sequences
Atoms == {<<AllAtoms[i]>> : i \in 1..NumDbRegions}
AtomAt(i) == <<AllAtoms[i + 1]>>
Targets == {AllTargets[i] : i \in 1..Len(AllTargets)}

\* motif identifiers of the database, in index order
MotifOrder == <<"m1", "m2", "m3">>
DbMotifs == {MotifOrder[i] : i \in 1..Len(MotifOrder)}
\* motif identifiers a caller may ask for; "mX" is in no database
RequestMotifs == {"m1", "m2", "mX"}

\* analysis names
Names == {"A", "B"}

SEP == "__"
\* the namespace prefixes a database file may carry ("none": no namespace)
PrefixKinds == {"none", "empty", "p"}

----------------------------------------------------------------------------
(* Python string operations on token sequences *)

\* '__' in s
HasSep(s) == \E i \in 1..Len(s) : s[i] = SEP

RECURSIVE SplitFrom(_, _, _)
\* s.split('__'), scanning from position i with the current segment cur
SplitFrom(s, i, cur) ==
    IF i > Len(s) THEN <<cur>>
    ELSE IF s[i] = SEP THEN <<cur>> \o SplitFrom(s, i + 1, <<>>)
    ELSE SplitFrom(s, i + 1, Append(cur, s[i]))

Split(s) == SplitFrom(s, 1, <<>>)

\* prefix + '__' + x
Join(prefix, x) == prefix \o <<SEP>> \o x

\* a database key for region atom a under a prefix kind
MakeKey(kind, a) ==
    CASE kind = "none" -> a
      [] kind = "empty" -> Join(<<>>, a)
      [] OTHER -> Join(<<kind>>, a)

----------------------------------------------------------------------------
(* The ranking database file (FeatherRankingDatabase) *)

\* the ranking rows a motif's row is drawn from, as the rank of the i-th region
RankRows == {"identity", "reversed", "rotated"}

RankRow(k, i) ==
    CASE k = "identity" -> i
      [] k = "reversed" -> NumDbRegions - 1 - i
      [] OTHER -> (i + 1) % NumDbRegions

MakeFeather(kind, rows) ==
    [ genes |-> [i \in 1..NumDbRegions |-> MakeKey(kind, AtomAt(i - 1))],
      rankings |-> [m \in DbMotifs |->
                      [g \in {MakeKey(kind, AtomAt(i)) : i \in 0..(NumDbRegions - 1)} |->
                         LET i == CHOOSE j \in 0..(NumDbRegions - 1) : MakeKey(kind, AtomAt(j)) = g
                         IN RankRow(rows[m], i)]] ]

\* db.total_genes
TotalGenes(db) == Len(db.genes)

GeneSet(db) == {db.genes[i] : i \in 1..Len(db.genes)}

\* db.load(signature): the columns of the requested keys the file holds
DbLoad(db, requested) ==
    LET cols == requested \cap GeneSet(db)
    IN [ columns |-> cols,
         values |-> [m \in DbMotifs |-> [g \in cols |-> db.rankings[m][g]]] ]

\* db.load_full()
DbLoadFull(db) == DbLoad(db, GeneSet(db))

----------------------------------------------------------------------------
(* pycistarget.utils *)

NoTable == {}

\* target_to_query(region_set, db_regions, fraction_overlap): one row per region
\* of the set that overlaps a database region above the threshold.
\* rs.coords[t] is the database region the coordinates of t overlap (<<>>: none)
TargetToQuery(rs, S, db_regions) ==
    {[Target |-> t, Query |-> rs.coords[t]] :
        t \in {u \in S : rs.coords[u] \in db_regions}}

QueryOf(table) == {row.Query : row \in table}
TargetOf(table) == {row.Target : row \in table}

\* the first k query regions
FirstTargets(k) == {AllTargets[i] : i \in 1..k}

\* where the query regions lie: the k-th overlaps one of the first k database
\* regions, or none (the database regions are interchangeable)
Coords ==
    {c \in [Targets -> Atoms \cup {<<>>}] :
        \A i \in 1..Len(AllTargets) :
            c[AllTargets[i]] \in {<<>>} \cup {AtomAt(j) : j \in 0..(i - 1)}}

NoCoords == [t \in Targets |-> <<>>]
NoSets == [n \in Names |-> {}]

\* the region_sets arguments: None, something that is neither a dict nor a
\* PyRanges, a dict of two region sets, a single region set
RegionSetsArgs ==
    {[kind |-> k, coords |-> NoCoords, sets |-> NoSets] : k \in {"None", "other"}}
    \cup
    {[kind |-> k, coords |-> c,
      sets |-> [n \in Names |-> IF n = "A" THEN Targets ELSE FirstTargets(1)]] :
        k \in {"dict"}, c \in Coords}
    \cup
    {[kind |-> k, coords |-> c, sets |-> [n \in Names |-> Targets]] :
        k \in {"PyRanges"}, c \in Coords}

----------------------------------------------------------------------------
(* cisTargetDatabase.load_db *)

NoRankings == [columns |-> {}, values |-> [m \in DbMotifs |-> <<>>]]
NoRegionsToDb == [kind |-> "None", byname |-> [n \in Names |-> NoTable], table |-> NoTable]

\* prefix = db_regions[0].split('__')[0] when '__' in db_regions[0]
PrefixOf(db) ==
    IF HasSep(db.genes[1])
    THEN [given |-> TRUE, value |-> Split(db.genes[1])[1]]
    ELSE [given |-> FALSE, value |-> <<>>]

\* db_regions, with [x.split('__')[1] for x in db_regions] when there is a prefix
DbRegions(db) ==
    IF PrefixOf(db).given
    THEN {Split(db.genes[i])[2] : i \in 1..Len(db.genes)}
    ELSE GeneSet(db)

Requested_NoPrefix(db, target_regions_in_db) == target_regions_in_db

\* target_regions_in_db, with the prefix put back when there is one
Requested(db, target_regions_in_db) ==
    IF PrefixOf(db).given
    THEN {Join(PrefixOf(db).value, x) : x \in target_regions_in_db}
    ELSE target_regions_in_db

\* db_rankings.columns = [x.split('__')[1] for x in db_rankings.columns]
StripColumns(db, loaded) ==
    IF PrefixOf(db).given
    THEN [ columns |-> {Split(g)[2] : g \in loaded.columns},
           values |-> [m \in DbMotifs |->
                         [c \in {Split(g)[2] : g \in loaded.columns} |->
                            loaded.values[m][CHOOSE g \in loaded.columns : Split(g)[2] = c]]] ]
    ELSE loaded

\* the region mapping load_db builds for a dict or a single PyRanges
MapRegionSets(db, rs) ==
    IF rs.kind = "dict"
    THEN [kind |-> "dict",
          byname |-> [n \in Names |-> TargetToQuery(rs, rs.sets[n], DbRegions(db))],
          table |-> NoTable]
    ELSE [kind |-> "table",
          byname |-> [n \in Names |-> NoTable],
          table |-> TargetToQuery(rs, Targets, DbRegions(db))]

\* every Query of the mapping
TargetRegionsInDb(mapping) ==
    IF mapping.kind = "dict"
    THEN UNION {QueryOf(mapping.byname[n]) : n \in Names}
    ELSE QueryOf(mapping.table)

IsRegionSets_Any(rs) == TRUE

\* type(region_sets) == dict or type(region_sets) == pr.PyRanges
IsRegionSets(rs) == rs.kind \in {"dict", "PyRanges"}

\* load_db: what it returns (or raises) for a file and a region_sets argument
load_db(db, rs) ==
    IF rs.kind = "None"
    THEN [pc |-> "loaded", raised |-> "none", requested |-> GeneSet(db),
          regions_to_db |-> NoRegionsToDb,
          db_rankings |-> DbLoadFull(db),
          total_regions |-> TotalGenes(db)]
    ELSE IF ~IsRegionSets(rs)
    THEN [pc |-> "load_failed", raised |-> "ValueError", requested |-> {},
          regions_to_db |-> NoRegionsToDb,
          db_rankings |-> NoRankings,
          total_regions |-> 0]
    ELSE LET mapping == MapRegionSets(db, rs)
             requested == Requested(db, TargetRegionsInDb(mapping))
         IN [pc |-> "loaded", raised |-> "none", requested |-> requested,
             regions_to_db |-> mapping,
             db_rankings |-> StripColumns(db, DbLoad(db, requested)),
             total_regions |-> TotalGenes(db)]

----------------------------------------------------------------------------
(* Exact arithmetic *)

RECURSIVE SetSum(_, _)
\* the sum of f(x) over the finite set S, f a function
SetSum(f, S) ==
    IF S = {} THEN 0
    ELSE LET x == CHOOSE y \in S : TRUE
         IN f[x] + SetSum(f, S \ {x})

RECURSIVE SeqSum(_)
SeqSum(s) == IF s = <<>> THEN 0 ELSE Head(s) + SeqSum(Tail(s))

Sgn(x) == IF x > 0 THEN 1 ELSE IF x < 0 THEN -1 ELSE 0

\* the sign of a*sqrt(s) - c, for integers a, c and s >= 0
Sgn2(a, s, c) ==
    LET l == IF s = 0 THEN 0 ELSE Sgn(a)
    IN IF l >= 0 /\ c < 0 THEN 1
       ELSE IF l >= 0 THEN Sgn(a * a * s - c * c)
       ELSE IF c >= 0 THEN -1
       ELSE Sgn(c * c - a * a * s)

\* the sign of a*sqrt(n) + 2*sqrt(qk) - 2*sqrt(qj), for n >= 1, qk >= 0, qj >= 0
Sgn3(a, n, qk, qj) ==
    IF a < 0 /\ 4 * qk < a * a * n THEN -1
    ELSE Sgn2(4 * a, n * qk, 4 * qj - a * a * n - 4 * qk)

----------------------------------------------------------------------------
(* ctxcore.recovery: the statistical kernel *)

\* derive_rank_cutoff: thresholds are kept in units of 1/total_genes, so that
\* int(round(auc_threshold * total_genes)) is the number itself
DeriveRankCutoff(auc_threshold) == auc_threshold

\* weighted_auc1d times maxauc, for weights of 1: the area under the recovery
\* curve of one ranking row up to rank_cutoff
AucNum(row, regions, rank_cutoff) ==
    SetSum([r \in regions |-> IF row[r] < rank_cutoff THEN rank_cutoff - row[r] ELSE 0],
           regions)

\* aucs(rnk, total_genes, weights, auc_threshold): asserts maxauc > 0, and gives
\* every row's AUC, here as numerators over the common denominator maxauc
calc_aucs(rnk, features, regions, auc_threshold) ==
    LET rank_cutoff == DeriveRankCutoff(auc_threshold)
        maxauc == (rank_cutoff + 1) * Cardinality(regions)
    IN IF maxauc > 0
       THEN [raised |-> "none", maxauc |-> maxauc,
             aucs |-> [i \in 1..Len(features) |->
                         AucNum(rnk[features[i]], regions, rank_cutoff)]]
       ELSE [raised |-> "AssertionError", maxauc |-> maxauc,
             aucs |-> [i \in 1..Len(features) |-> 0]]

\* rcc2d: the recovery curve of one ranking row at rank k (0-based), for weights of 1
Rcc(row, regions, k) == Cardinality({r \in regions : row[r] <= k})

\* recovery(..., no_auc=True): every row's recovery curve over ranks 0..rank_threshold-1
recovery(rnk, features, regions, rank_threshold) ==
    [i \in 1..Len(features) |->
        [k \in 0..(rank_threshold - 1) |-> Rcc(rnk[features[i]], regions, k)]]

\* np.argmax(rcc - avg2stdrcc): the first rank at which the difference is largest.
\* avg2stdrcc[k] is kept as [sum, ss, n]: mean = sum/n, std = sqrt(ss/n^3), so
\* n*sqrt(n)*(rcc[k] - avg2stdrcc[k]) = (n*rcc[k] - sum)*sqrt(n) - 2*sqrt(ss)
DiffSgn(rcc, ref, j, k) ==
    Sgn3((ref[j].n * rcc[j] - ref[j].sum) - (ref[k].n * rcc[k] - ref[k].sum),
         ref[j].n, ref[k].ss, ref[j].ss)

critical_point(rcc, ref) ==
    CHOOSE k \in DOMAIN rcc :
        /\ \A j \in DOMAIN rcc : j < k => DiffSgn(rcc, ref, j, k) < 0
        /\ \A j \in DOMAIN rcc : j > k => DiffSgn(rcc, ref, j, k) <= 0

RECURSIVE SortByRank(_, _)
\* genes[np.argsort(ranking)]
SortByRank(row, regions) ==
    IF regions = {} THEN <<>>
    ELSE LET r == CHOOSE x \in regions : \A y \in regions : row[x] <= row[y]
         IN <<r>> \o SortByRank(row, regions \ {r})

\* leading_edge4row: the regions ranked at or before rank_at_max, by rank, each
\* with its weight, and rank_at_max
leading_edge4row(rcc, ref, row, regions) ==
    LET rank_at_max == critical_point(rcc, ref)
        sorted == SortByRank(row, {r \in regions : row[r] <= rank_at_max})
    IN [TargetRegions |-> [i \in 1..Len(sorted) |-> <<sorted[i], 1>>],
        RankAtMax |-> rank_at_max]

----------------------------------------------------------------------------
(* pycistarget.motif_enrichment_result: annotation and cistromes *)

\* the motif-to-TF annotation table
DirectAnnot(m) == IF m \in {"m1", "m2"} THEN {"TF1"} ELSE {}
SimilarityAnnot(m) == IF m = "m3" THEN {"TF1"} ELSE {}

\* add_motif_annotation: attaches the annotation columns to every row, rows and
\* their order kept
add_motif_annotation(table) ==
    [i \in 1..Len(table) |->
        [MotifID |-> table[i].MotifID, Region_set |-> table[i].Region_set,
         NES |-> table[i].NES, AUC |-> table[i].AUC,
         Rank_at_max |-> table[i].Rank_at_max, Motif_hits |-> table[i].Motif_hits,
         Direct_annot |-> DirectAnnot(table[i].MotifID),
         Motif_similarity_annot |-> SimilarityAnnot(table[i].MotifID)]]

TfsOf(table, extended) ==
    UNION {table[i].Direct_annot \cup
           (IF extended THEN table[i].Motif_similarity_annot ELSE {}) :
           i \in 1..Len(table)}

\* the union of the hits of the motifs annotated to tf
CistromeOf(table, hits, tf, extended) ==
    UNION {hits[table[i].MotifID] :
           i \in {j \in 1..Len(table) :
                    tf \in table[j].Direct_annot \cup
                           (IF extended THEN table[j].Motif_similarity_annot ELSE {})}}

\* get_cistromes, for one space of hits (motif -> set of regions)
get_cistromes(table, hits) ==
    [direct |-> [tf \in TfsOf(table, FALSE) |-> CistromeOf(table, hits, tf, FALSE)],
     extended |-> [tf \in TfsOf(table, TRUE) |-> CistromeOf(table, hits, tf, TRUE)]]

----------------------------------------------------------------------------
(* cisTarget.__init__ *)

\* thresholds in units of 1/total_regions: 0 < auc_threshold <= rank_threshold < 1
\* is what the kernel's derive_rank_cutoff accepts
AucThresholds == 1..(NumDbRegions - 1)
RankThresholds(a) == a..(NumDbRegions - 1)
\* NES thresholds, as fractions p/q with q > 0
NesThresholds == {[p |-> -1, q |-> 1], [p |-> 0, q |-> 1], [p |-> 1, q |-> 1]}
MotifsToUseArgs ==
    {[given |-> FALSE, motifs |-> {}]}
    \cup {[given |-> TRUE, motifs |-> S] : S \in SUBSET RequestMotifs}

EmptyDict == <<>>
Unset == <<>>

\* a new cisTarget object: parameters set, no results yet
NewCisTarget(name, region_set, a, r, nes, mtu) ==
    [name |-> name, region_set |-> region_set,
     auc_threshold |-> a, nes_threshold |-> nes, rank_threshold |-> r,
     motifs_to_use |-> mtu,
     regions_to_db |-> NoTable,
     motif_enrichment |-> <<>>,
     motif_hits |-> Unset,
     cistromes |-> Unset]

\* the objects a caller builds for a loaded database: by name for a dict of
\* region sets, by region set for a single one
CisTargets(rs) ==
    UNION {{NewCisTarget(n, S, a, r, nes, mtu) :
              S \in (IF rs.kind = "PyRanges"
                     THEN {FirstTargets(k) : k \in 1..Len(AllTargets)}
                     ELSE {rs.sets[n]}),
              a \in AucThresholds, r \in RankThresholds(1),
              nes \in NesThresholds, mtu \in MotifsToUseArgs} :
           n \in (IF rs.kind = "dict" THEN Names ELSE {"A"})}

----------------------------------------------------------------------------
(* cisTarget.run_ctx, step by step *)

\* self.regions_to_db: the entry of the name in a dict of mappings, the rows of
\* the object's own regions in a single mapping; None has no .loc
ResolveRegionsToDb(obj, db) ==
    IF db.regions_to_db.kind = "dict"
    THEN [raised |-> "none", table |-> db.regions_to_db.byname[obj.name]]
    ELSE IF db.regions_to_db.kind = "table"
    THEN [raised |-> "none",
          table |-> {row \in db.regions_to_db.table :
                        row.Target \in obj.region_set \cap TargetOf(db.regions_to_db.table)}]
    ELSE [raised |-> "AttributeError", table |-> NoTable]

\* regions: the genes of the signature built from the Query column
RegionsOf(table) == QueryOf(table)

\* the motifs asked for that the database does not hold
MotifsNotInDb(obj) == obj.motifs_to_use.motifs \ DbMotifs

MotifsConsidered_IgnoreSubset(obj) == DbMotifs

\* the motifs whose rows are scored
MotifsConsidered(obj) ==
    IF obj.motifs_to_use.given
    THEN obj.motifs_to_use.motifs \cap DbMotifs
    ELSE DbMotifs

\* the orders of a finite set
OrdersOf(S) ==
    {f \in [1..Cardinality(S) -> S] : \A i, j \in 1..Cardinality(S) : f[i] = f[j] => i = j}

\* features: the index of db_rankings_regions. A set used as indexer yields its
\* members in the set's iteration order; without motifs_to_use the database's
\* index order is kept
FeatureOrders(obj) ==
    IF obj.motifs_to_use.given
    THEN OrdersOf(MotifsConsidered(obj))
    ELSE {MotifOrder}

\* as Ness, with the sample deviation (ddof = 1) in place of the population's
Ness_Ddof1(aucs) ==
    LET n == Len(aucs)
        total == SeqSum(aucs)
        d == [i \in 1..n |-> n * aucs[i] - total]
        ss == SeqSum([i \in 1..n |-> d[i] * d[i]])
    IN [i \in 1..n |-> [d |-> d[i], n |-> n - 1, ss |-> ss]]

\* ness = (aucs - aucs.mean()) / aucs.std(), each kept as [d, n, ss]:
\* aucs[i] - mean = d/n, std = sqrt(ss/n^3), so NES = d*sqrt(n)/sqrt(ss),
\* and NaN (0/0) when ss = 0
Ness(aucs) ==
    LET n == Len(aucs)
        total == SeqSum(aucs)
        d == [i \in 1..n |-> n * aucs[i] - total]
        ss == SeqSum([i \in 1..n |-> d[i] * d[i]])
    IN [i \in 1..n |-> [d |-> d[i], n |-> n, ss |-> ss]]

\* as NesGeq, with 0/0 read as 0
NesGeq_NanAsZero(nes, thr) ==
    LET a == nes.d * thr.q
        b == thr.p
    IN IF a >= 0 /\ b <= 0 THEN TRUE
       ELSE IF a < 0 /\ b >= 0 THEN FALSE
       ELSE IF a >= 0 THEN a * a * nes.n >= b * b * nes.ss
       ELSE a * a * nes.n <= b * b * nes.ss

\* nes >= threshold, for threshold p/q: d*sqrt(n)*q >= p*sqrt(ss); FALSE for NaN
NesGeq(nes, thr) ==
    /\ nes.ss > 0
    /\ LET a == nes.d * thr.q
           b == thr.p
       IN IF a >= 0 /\ b <= 0 THEN TRUE
          ELSE IF a < 0 /\ b >= 0 THEN FALSE
          ELSE IF a >= 0 THEN a * a * nes.n >= b * b * nes.ss
          ELSE a * a * nes.n <= b * b * nes.ss

\* enriched_features_idx = ness >= self.nes_threshold
EnrichedIdx(ness, thr) == {i \in DOMAIN ness : NesGeq(ness[i], thr)}

NoneEnriched_NoGuard(idx) == FALSE

\* sum(enriched_features_idx) == 0
NoneEnriched(idx) == Cardinality(idx) = 0

\* the positions of idx in increasing order
RECURSIVE Ascending(_)
Ascending(idx) ==
    IF idx = {} THEN <<>>
    ELSE LET i == CHOOSE x \in idx : \A y \in idx : x <= y
         IN <<i>> \o Ascending(idx \ {i})

\* avg2stdrcc = rccs.mean(axis=0) + 2.0 * rccs.std(axis=0), over the rows given,
\* each rank kept as [sum, ss, n]
Avg2StdRcc(rccs, rank_threshold) ==
    [k \in 0..(rank_threshold - 1) |->
        LET n == Len(rccs)
            total == SeqSum([i \in 1..n |-> rccs[i][k]])
        IN [sum |-> total, n |-> n,
            ss |-> SeqSum([i \in 1..n |->
                             (n * rccs[i][k] - total) * (n * rccs[i][k] - total)])]]

\* the reference taken after the subsetting to the enriched rows
ReferenceRows_EnrichedOnly(rccs, sel) == [j \in 1..Len(sel) |-> rccs[sel[j]]]

\* the curves whose mean and deviation make the reference: those of every row
\* scored (rccs is subset to the enriched rows only afterwards)
ReferenceRows(rccs, sel) == rccs

\* enriched_features before sorting: one row per enriched feature, in feature
\* order, with its leading edge
EnrichedFeatures(obj, rnk, features, regions, aucs, ness, idx) ==
    LET sel == Ascending(idx)
        rccs == recovery(rnk, features, regions, obj.rank_threshold)
        avg2stdrcc == Avg2StdRcc(ReferenceRows(rccs, sel), obj.rank_threshold)
    IN [j \in 1..Len(sel) |->
          LET i == sel[j]
              le == leading_edge4row(rccs[i], avg2stdrcc, rnk[features[i]], regions)
          IN [MotifID |-> features[i], NES |-> ness[i], AUC |-> aucs[i],
              Region_set |-> obj.name,
              Motif_hits |-> le.TargetRegions, Rank_at_max |-> le.RankAtMax]]

\* is the table in NES-descending order
NesDescending(table) ==
    \A i, j \in 1..Len(table) : i < j => table[i].NES.d >= table[j].NES.d

\* sort_values('NES', ascending=False), kind left at its default (quicksort,
\* not stable): any descending order of the rows
SortValuesNES(table) ==
    {[i \in 1..Len(table) |-> table[f[i]]] : f \in
        {g \in OrdersOf(1..Len(table)) :
            \A i, j \in 1..Len(table) : i < j => table[g[i]].NES.d >= table[g[j]].NES.d}}

\* db_motif_hits: per row of enriched_features, the first element of every hit
DbMotifHits(table) ==
    [m \in {table[i].MotifID : i \in 1..Len(table)} |->
        LET i == CHOOSE j \in 1..Len(table) : table[j].MotifID = m
        IN [h \in 1..Len(table[i].Motif_hits) |-> table[i].Motif_hits[h][1]]]

SeqToSet(q) == {q[i] : i \in 1..Len(q)}

RsMotifHits_AllTargets(regions_to_db, db_motif_hits) ==
    [m \in DOMAIN db_motif_hits |-> TargetOf(regions_to_db)]

\* rs_motif_hits: the Targets of the rows whose Query is a database hit
RsMotifHits(regions_to_db, db_motif_hits) ==
    [m \in DOMAIN db_motif_hits |->
        {row.Target : row \in {x \in regions_to_db : x.Query \in SeqToSet(db_motif_hits[m])}}]

\* the counts set on the rows from the last key to the first
SetMotifHitsCount_Reversed(annotated, sorted, db_motif_hits) ==
    [i \in 1..Len(annotated) |->
        [annotated[i] EXCEPT
           !.Motif_hits = Len(db_motif_hits[sorted[Len(annotated) + 1 - i].MotifID])]]

\* self.motif_enrichment['Motif_hits'] = [len(db_motif_hits[i]) for i in keys]:
\* the counts, in the key order of db_motif_hits (the row order of the sorted
\* enriched_features), set by position on the rows of the annotated table
SetMotifHitsCount(annotated, sorted, db_motif_hits) ==
    [i \in 1..Len(annotated) |->
        [annotated[i] EXCEPT !.Motif_hits = Len(db_motif_hits[sorted[i].MotifID])]]

\* self.motif_enrichment = enriched_features[['Region_set','NES','AUC','Rank_at_max']]
SelectColumns(table) ==
    [i \in 1..Len(table) |-> [table[i] EXCEPT !.Motif_hits = 0]]

----------------------------------------------------------------------------
(* cisTarget.run_ctx *)

AllCalls == {"calc_aucs", "recovery", "leading_edge4row",
             "add_motif_annotation", "get_cistromes"}

\* the empty enrichment table, and the empty hits and cistromes with both keys
EmptyTable == <<>>
EmptyHits == [Database |-> EmptyDict, Region_set |-> EmptyDict]

\* the log lines of the motif subset
SubsetLog(obj) ==
    IF obj.motifs_to_use.given
    THEN {"user_motifs"} \cup
         (IF Cardinality(MotifsNotInDb(obj)) > 0 THEN {"motifs_not_in_db"} ELSE {})
    ELSE {}

\* the terminal state of a run without enriched motifs
ZeroEnrichment(o) ==
    [o EXCEPT !.motif_enrichment = EmptyTable,
              !.motif_hits = EmptyHits,
              !.cistromes = EmptyHits]

\* the results of a run with enriched motifs, for one outcome of the sort
WithResults(o, sorted) ==
    LET annotated == add_motif_annotation(SelectColumns(sorted))
        db_motif_hits == DbMotifHits(sorted)
        rs_motif_hits == RsMotifHits(o.regions_to_db, db_motif_hits)
        motif_enrichment == SetMotifHitsCount(annotated, sorted, db_motif_hits)
    IN [o EXCEPT
          !.motif_enrichment = motif_enrichment,
          !.motif_hits = [Database |-> db_motif_hits, Region_set |-> rs_motif_hits],
          !.cistromes =
              [Database |-> get_cistromes(motif_enrichment,
                               [m \in DOMAIN db_motif_hits |-> SeqToSet(db_motif_hits[m])]),
               Region_set |-> get_cistromes(motif_enrichment, rs_motif_hits)]]

\* run_ctx from the scoring on, for one order of the features
RunScored(o, db, features) ==
    LET regions == RegionsOf(o.regions_to_db)
        rnk == db.db_rankings.values
        k == calc_aucs(rnk, features, regions, o.auc_threshold)
        ness == Ness(k.aucs)
        idx == EnrichedIdx(ness, o.nes_threshold)
        seen == [features |-> features, regions |-> regions, aucs |-> k.aucs]
    IN IF k.raised # "none"
       THEN {[self |-> o,
              run |-> [pc |-> "raised", raised |-> k.raised, calls |-> {"calc_aucs"},
                       log |-> SubsetLog(o), seen |-> seen]]}
       ELSE IF NoneEnriched(idx)
       THEN {[self |-> ZeroEnrichment(o),
              run |-> [pc |-> "returned", raised |-> "none", calls |-> {"calc_aucs"},
                       log |-> SubsetLog(o) \cup {"no_enriched"}, seen |-> seen]]}
       ELSE {[self |-> WithResults(o, sorted),
              run |-> [pc |-> "returned", raised |-> "none", calls |-> AllCalls,
                       log |-> SubsetLog(o), seen |-> seen]] :
               sorted \in SortValuesNES(
                   EnrichedFeatures(o, rnk, features, regions, k.aucs, ness, idx))}

\* run_ctx: every outcome of a run of obj against db
run_ctx(obj, db) ==
    LET res == ResolveRegionsToDb(obj, db)
    IN IF res.raised # "none"
       THEN {[self |-> obj,
              run |-> [pc |-> "raised", raised |-> res.raised, calls |-> {},
                       log |-> {},
                       seen |-> [features |-> <<>>, regions |-> {}, aucs |-> <<>>]]]}
       ELSE UNION {RunScored([obj EXCEPT !.regions_to_db = res.table], db, features) :
                     features \in FeatureOrders(obj)}

\* the rank matrix cut down in place to the regions of the run
CtxDbAfterRun_SubsetInPlace(db, obj) ==
    [db EXCEPT !.db_rankings.columns = RegionsOf(ResolveRegionsToDb(obj, db).table)]

\* the database object after a run against it: run_ctx reads it and takes
\* copies (db_rankings[regions], .loc[...]), it assigns nothing to it
CtxDbAfterRun(db, obj) == db

----------------------------------------------------------------------------
(* The state machine *)

\* no analysis object, no run
NoCisTarget == NewCisTarget("A", {}, 1, 1, [p |-> 0, q |-> 1],
                            [given |-> FALSE, motifs |-> {}])
NoRun == [pc |-> "idle", raised |-> "none", calls |-> {}, log |-> {},
          seen |-> [features |-> <<>>, regions |-> {}, aucs |-> <<>>]]

Init ==
    /\ feather \in {MakeFeather(kind, rows) :
                      kind \in PrefixKinds, rows \in [DbMotifs -> RankRows]}
    /\ region_sets = [kind |-> "None", coords |-> NoCoords, sets |-> NoSets]
    /\ ctx_db = [regions_to_db |-> NoRegionsToDb, db_rankings |-> NoRankings,
                 total_regions |-> 0]
    /\ load = [pc |-> "new", raised |-> "none", requested |-> {}]
    /\ self = NoCisTarget
    /\ run = NoRun

\* cisTargetDatabase(fname, region_sets): __init__ calls load_db
LoadDb ==
    /\ load.pc = "new"
    /\ \E rs \in RegionSetsArgs :
         LET r == load_db(feather, rs)
         IN /\ region_sets' = rs
            /\ load' = [pc |-> r.pc, raised |-> r.raised, requested |-> r.requested]
            /\ ctx_db' = IF r.pc = "loaded"
                         THEN [regions_to_db |-> r.regions_to_db,
                               db_rankings |-> r.db_rankings,
                               total_regions |-> r.total_regions]
                         ELSE ctx_db
    /\ UNCHANGED <<feather, self, run>>

\* cisTarget(region_set, name, ...).run_ctx(ctx_db)
RunCtx ==
    /\ load.pc = "loaded"
    /\ run.pc = "idle"
    /\ \E obj \in CisTargets(region_sets) :
         /\ obj.auc_threshold <= obj.rank_threshold
         /\ \E out \in run_ctx(obj, ctx_db) :
              /\ self' = out.self
              /\ run' = out.run
         /\ ctx_db' = CtxDbAfterRun(ctx_db, obj)
    /\ UNCHANGED <<feather, region_sets, load>>

\* the caller is done with the analysis object; the next run is that of a new
\* object against the same database object
Release ==
    /\ run.pc \in {"returned", "raised"}
    /\ self' = NoCisTarget
    /\ run' = NoRun
    /\ UNCHANGED <<feather, region_sets, ctx_db, load>>

Next == LoadDb \/ RunCtx \/ Release

Spec == Init /\ [][Next]_vars

----------------------------------------------------------------------------
(* What the claims speak of, stated on the state *)

\* a run went as far as the NES vector: the region mapping was resolved and the
\* kernel returned the AUCs
NesComputed == run.pc # "idle" /\ "calc_aucs" \in run.calls /\ run.raised = "none"

\* the z-score of the i-th AUC over the whole vector is >= p/q, by the variance
\* form: NES = (n*x - S) / sqrt(n*sum(x^2) - S^2)
ZScoreGeq(aucs, i, thr) ==
    LET n == Len(aucs)
        total == SeqSum(aucs)
        v == n * SeqSum([j \in 1..n |-> aucs[j] * aucs[j]]) - total * total
    IN v > 0 /\ Sgn2(thr.p, v, thr.q * (n * aucs[i] - total)) <= 0

\* the motifs of the last run whose NES is >= the threshold
EnrichedOfRun ==
    {run.seen.features[i] : i \in {j \in 1..Len(run.seen.aucs) :
                                     ZScoreGeq(run.seen.aucs, j, self.nes_threshold)}}

RowMotifs == {self.motif_enrichment[i].MotifID : i \in 1..Len(self.motif_enrichment)}

\* the zero-enrichment terminal state
ZeroEnrichmentState ==
    /\ run.pc = "returned"
    /\ run.raised = "none"
    /\ Len(self.motif_enrichment) = 0
    /\ DOMAIN self.motif_hits = {"Database", "Region_set"}
    /\ DOMAIN self.motif_hits["Database"] = {}
    /\ DOMAIN self.motif_hits["Region_set"] = {}
    /\ DOMAIN self.cistromes = {"Database", "Region_set"}
    /\ DOMAIN self.cistromes["Database"] = {}
    /\ DOMAIN self.cistromes["Region_set"] = {}

LaterSteps == {"recovery", "leading_edge4row", "add_motif_annotation", "get_cistromes"}

----------------------------------------------------------------------------
(* C1 *)

\* C1: whenever a run computed the NES vector and no motif considered has
\* NES >= nes_threshold, the run returns without exception in the
\* zero-enrichment terminal state (no rows, both sub-keys of motif_hits and of
\* cistromes present and empty) and none of the later steps was invoked
C1_ZeroEnrichmentTerminal ==
    (NesComputed /\ EnrichedOfRun = {}) =>
        (ZeroEnrichmentState /\ run.calls \cap LaterSteps = {})

\* a run over three motifs with different AUCs, none of them enriched
C1_Witness ==
    /\ NesComputed
    /\ EnrichedOfRun = {}
    /\ Len(run.seen.aucs) = 3
    /\ run.seen.aucs[1] # run.seen.aucs[2]
    /\ ZeroEnrichmentState

----------------------------------------------------------------------------
(* C2 *)

\* C2, as stated: a region_sets argument that is neither a PyRanges nor a dict
\* makes load_db raise a TypeError, with no rank matrix loaded and no region
\* mapping made
C2_RaisesTypeError ==
    (load.pc # "new" /\ region_sets.kind \notin {"dict", "PyRanges"}) =>
        /\ load.pc = "load_failed"
        /\ load.raised = "TypeError"
        /\ load.requested = {}
        /\ ctx_db.db_rankings.columns = {}
        /\ ctx_db.regions_to_db.kind = "None"

\* C2, amended: a region_sets argument that is not None and is neither a
\* PyRanges nor a dict makes load_db raise a ValueError, before anything is
\* asked of the database file, with no rank matrix and no region mapping; for
\* None nothing is raised, the full rank matrix is loaded and the mapping is
\* None; load_db raises in no other case
C2_RaisesValueError ==
    load.pc # "new" =>
        /\ region_sets.kind \notin {"dict", "PyRanges", "None"} =>
              /\ load.pc = "load_failed"
              /\ load.raised = "ValueError"
              /\ load.requested = {}
              /\ ctx_db.db_rankings.columns = {}
              /\ ctx_db.regions_to_db.kind = "None"
        /\ region_sets.kind = "None" =>
              /\ load.pc = "loaded"
              /\ load.raised = "none"
              /\ ctx_db.db_rankings.columns = GeneSet(feather)
              /\ ctx_db.regions_to_db.kind = "None"
        /\ load.raised # "none" => region_sets.kind \notin {"dict", "PyRanges", "None"}

\* load_db was given something that is no region set, and failed
C2_Witness ==
    /\ region_sets.kind = "other"
    /\ load.pc = "load_failed"
    /\ load.raised = "ValueError"

----------------------------------------------------------------------------
(* C3 *)

\* the last run resolved its region mapping, and the mapping has no row
EmptyMappingRun ==
    /\ run.pc # "idle"
    /\ ctx_db.regions_to_db.kind # "None"
    /\ self.regions_to_db = NoTable

\* C3, as stated: a run whose region mapping is empty never invokes the
\* statistical kernel, does not raise, and ends in the zero-enrichment state
C3_EmptyMappingGuarded ==
    EmptyMappingRun =>
        /\ run.calls \cap {"calc_aucs", "recovery"} = {}
        /\ run.raised = "none"
        /\ ZeroEnrichmentState

----------------------------------------------------------------------------
(* C4 *)

\* the AUC vector of the last run is constant (one motif or more)
ConstantAucs ==
    /\ Len(run.seen.aucs) >= 1
    /\ \A i, j \in 1..Len(run.seen.aucs) : run.seen.aucs[i] = run.seen.aucs[j]

----------------------------------------------------------------------------
(* C5 *)

\* the last run returned a table with at least one row
ReturnedRows ==
    /\ run.pc = "returned"
    /\ run.raised = "none"
    /\ Len(self.motif_enrichment) >= 1

\* C5: the rows of the enrichment table of a run are exactly the motifs scored
\* whose NES is >= nes_threshold, the NES being the z-score of the motif's AUC
\* with mean and deviation over all the motifs scored; every such motif has
\* one row, with its AUC, and no other motif has a row
C5_RowsAreEnrichedMotifs ==
    NesComputed =>
        /\ RowMotifs = EnrichedOfRun
        /\ Len(self.motif_enrichment) = Cardinality(EnrichedOfRun)
        /\ \A i \in 1..Len(self.motif_enrichment) :
             \E j \in 1..Len(run.seen.features) :
                /\ run.seen.features[j] = self.motif_enrichment[i].MotifID
                /\ run.seen.aucs[j] = self.motif_enrichment[i].AUC

\* a run that scored three motifs and kept some of them, not all
C5_Witness ==
    /\ ReturnedRows
    /\ Len(run.seen.features) = 3
    /\ Len(self.motif_enrichment) < 3
    /\ RowMotifs = EnrichedOfRun

----------------------------------------------------------------------------
(* C6 *)

\* the position of motif m among the features scored
FeaturePos(m) == CHOOSE i \in 1..Len(run.seen.features) : run.seen.features[i] = m

\* C6, as stated: the enrichment table is in NES-descending order, and rows of
\* equal NES are in the order of their motifs among the features scored
C6_StableSortByNes ==
    ReturnedRows =>
        \A i, j \in 1..Len(self.motif_enrichment) :
            i < j =>
                \/ self.motif_enrichment[i].NES.d > self.motif_enrichment[j].NES.d
                \/ /\ self.motif_enrichment[i].NES.d = self.motif_enrichment[j].NES.d
                   /\ FeaturePos(self.motif_enrichment[i].MotifID)
                        < FeaturePos(self.motif_enrichment[j].MotifID)

----------------------------------------------------------------------------
(* C7 *)

\* the motifs of the rank matrix
MatrixMotifs == DOMAIN ctx_db.db_rankings.values

\* C7: the motifs a run scores are, each once, those asked for that the rank
\* matrix holds when motifs_to_use is given, and all those of the rank matrix
\* when it is not; motifs asked for that the matrix lacks are logged and make
\* no difference to whether the run raises
C7_ScoresIntersection ==
    (run.pc # "idle" /\ ctx_db.regions_to_db.kind # "None") =>
        /\ "calc_aucs" \in run.calls
        /\ SeqToSet(run.seen.features) =
              (IF self.motifs_to_use.given
               THEN self.motifs_to_use.motifs \cap MatrixMotifs
               ELSE MatrixMotifs)
        /\ Len(run.seen.features) = Cardinality(SeqToSet(run.seen.features))
        /\ (self.motifs_to_use.given /\ self.motifs_to_use.motifs \ MatrixMotifs # {})
              => "motifs_not_in_db" \in run.log
        /\ run.raised # "none" <=> self.regions_to_db = NoTable

\* a run asked for a motif of the matrix and one the matrix lacks, and returned
\* rows for the first
C7_Witness ==
    /\ ReturnedRows
    /\ self.motifs_to_use.given
    /\ self.motifs_to_use.motifs = {"m1", "m2", "mX"}
    /\ SeqToSet(run.seen.features) = {"m1", "m2"}
    /\ "motifs_not_in_db" \in run.log

----------------------------------------------------------------------------
(* C8 *)

\* the database was loaded for region sets, and its keys carry a prefix
LoadedWithPrefix ==
    /\ load.pc = "loaded"
    /\ region_sets.kind \in {"dict", "PyRanges"}
    /\ HasSep(feather.genes[1])

\* the prefix of the keys of the file
FilePrefix == Split(feather.genes[1])[1]

\* every Query of the mapping of the loaded database
MappedQueries ==
    IF ctx_db.regions_to_db.kind = "dict"
    THEN UNION {{row.Query : row \in ctx_db.regions_to_db.byname[n]} :
                  n \in DOMAIN ctx_db.regions_to_db.byname}
    ELSE {row.Query : row \in ctx_db.regions_to_db.table}

\* C8: when the keys of the database carry a prefix, every key load_db asks
\* the file for is a key of the file; the columns of the rank matrix and the
\* Query values of the mapping carry no prefix; the columns are the mapped
\* Query values; a column with the prefix put back is the key that was asked
\* for, and holds that key's ranks; and stripping then restoring the prefix
\* gives back every key of the file
C8_PrefixSymmetry ==
    LoadedWithPrefix =>
        /\ load.requested \subseteq GeneSet(feather)
        /\ \A q \in MappedQueries : ~HasSep(q)
        /\ ctx_db.db_rankings.columns = MappedQueries
        /\ {Join(FilePrefix, c) : c \in ctx_db.db_rankings.columns} = load.requested
        /\ \A c \in ctx_db.db_rankings.columns : \A m \in DOMAIN feather.rankings :
             ctx_db.db_rankings.values[m][c] = feather.rankings[m][Join(FilePrefix, c)]
        /\ \A g \in GeneSet(feather) : Join(FilePrefix, Split(g)[2]) = g

\* a database with keys 'p__...' loaded for region sets that overlap two of
\* its regions
C8_Witness ==
    /\ LoadedWithPrefix
    /\ FilePrefix = <<"p">>
    /\ Cardinality(ctx_db.db_rankings.columns) = 2
    /\ Cardinality(load.requested) = 2

----------------------------------------------------------------------------
(* C9 *)

\* C9: after a run with enriched motifs, the two sub-mappings of motif_hits
\* have the enriched motifs as keys, and the Region_set hits of a motif are
\* the Targets of the rows of the run's mapping whose Query is one of the
\* motif's Database hits
C9_RegionSetProjection ==
    ReturnedRows =>
        /\ DOMAIN self.motif_hits["Database"] = RowMotifs
        /\ DOMAIN self.motif_hits["Region_set"] = RowMotifs
        /\ \A m \in RowMotifs :
             /\ \A t \in self.motif_hits["Region_set"][m] :
                  \E row \in self.regions_to_db :
                     /\ row.Target = t
                     /\ \E h \in 1..Len(self.motif_hits["Database"][m]) :
                          self.motif_hits["Database"][m][h] = row.Query
             /\ \A row \in self.regions_to_db :
                  (\E h \in 1..Len(self.motif_hits["Database"][m]) :
                      self.motif_hits["Database"][m][h] = row.Query)
                  => row.Target \in self.motif_hits["Region_set"][m]

\* a motif whose hits are some of the regions of the run, not all
C9_Witness ==
    /\ ReturnedRows
    /\ Cardinality(self.regions_to_db) = 2
    /\ \E m \in RowMotifs :
         /\ Cardinality(self.motif_hits["Region_set"][m]) = 1
         /\ Len(self.motif_hits["Database"][m]) = 1

----------------------------------------------------------------------------
(* C10 *)

\* the recovery curve of motif m at rank k, over the regions of the last run
RccOfRun(m, k) ==
    Cardinality({r \in run.seen.regions : ctx_db.db_rankings.values[m][r] <= k})

\* over all the motifs scored, at rank k: the sum of the curves, and n times
\* the sum of their squares less the square of their sum (n^2 * variance)
RccSum(k) ==
    SeqSum([i \in 1..Len(run.seen.features) |-> RccOfRun(run.seen.features[i], k)])
RccVar(k) ==
    Len(run.seen.features)
        * SeqSum([i \in 1..Len(run.seen.features) |->
                    RccOfRun(run.seen.features[i], k) * RccOfRun(run.seen.features[i], k)])
    - RccSum(k) * RccSum(k)

\* the sign of (rcc[j] - avg2stdrcc[j]) - (rcc[k] - avg2stdrcc[k]) for motif m,
\* avg2stdrcc = mean + 2 * deviation over all the motifs scored
ExcessSgn(m, j, k) ==
    Sgn3((Len(run.seen.features) * RccOfRun(m, j) - RccSum(j))
           - (Len(run.seen.features) * RccOfRun(m, k) - RccSum(k)),
         1, RccVar(k), RccVar(j))

----------------------------------------------------------------------------
(* C11 *)

\* C11: after a run with enriched motifs, the Motif_hits count of every row
\* of the enrichment table is the number of Database hits of the motif of
\* that row
C11_MotifHitsCount ==
    ReturnedRows =>
        \A i \in 1..Len(self.motif_enrichment) :
            /\ self.motif_enrichment[i].MotifID \in DOMAIN self.motif_hits["Database"]
            /\ self.motif_enrichment[i].Motif_hits =
                 Len(self.motif_hits["Database"][self.motif_enrichment[i].MotifID])

\* two rows with different numbers of hits, which the sort put in the reverse
\* of the order of their motifs among the features
C11_Witness ==
    /\ ReturnedRows
    /\ \E i, j \in 1..Len(self.motif_enrichment) :
         /\ i < j
         /\ FeaturePos(self.motif_enrichment[i].MotifID)
              > FeaturePos(self.motif_enrichment[j].MotifID)
         /\ self.motif_enrichment[i].Motif_hits # self.motif_enrichment[j].Motif_hits
         /\ self.motif_enrichment[i].Motif_hits =
              Len(self.motif_hits["Database"][self.motif_enrichment[i].MotifID])

----------------------------------------------------------------------------
(* C12 *)

\* a step is a run of run_ctx, whatever its outcome
RunStep == run.pc = "idle" /\ run'.pc # "idle"

\* C12: a run of run_ctx, whatever its outcome and whatever runs came before
\* it, leaves the database object as it was: db_rankings, total_regions and
\* regions_to_db are the same after the run as before it
C12_CtxDbUnchanged ==
    [][RunStep => /\ ctx_db'.db_rankings = ctx_db.db_rankings
                  /\ ctx_db'.total_regions = ctx_db.total_regions
                  /\ ctx_db'.regions_to_db = ctx_db.regions_to_db]_vars

\* a run over one region returned rows, and the database still has the two
\* columns and the mapping load_db gave it
C12_Witness ==
    /\ ReturnedRows
    /\ Cardinality(run.seen.regions) = 1
    /\ Cardinality(ctx_db.db_rankings.columns) = 2
    /\ ctx_db.db_rankings = StripColumns(feather, DbLoad(feather, load.requested))
    /\ ctx_db.regions_to_db = MapRegionSets(feather, region_sets)
    /\ ctx_db.total_regions = TotalGenes(feather)

====
